---- MODULE Spec2Model ----
(***************************************************************************)
(* User accounts of py-api: the SQLAlchemy repository (save, find_by_email, *)
(* find_by_id) over the "users" table, and the Create and Delete use cases  *)
(* on top of it.                                                            *)
(*                                                                          *)
(* Three specifications share the state:                                    *)
(*   Spec      each HTTP request (one use-case call) runs to completion;    *)
(*   SpecRepo  the repository port called directly with arbitrary entities; *)
(*   SpecConc  two requests in flight, each store round-trip one step.      *)
(*                                                                          *)
(* Optional[T] is a sequence of length <= 1: <<>> is None, <<v>> is v.      *)
(***************************************************************************)
EXTENDS Integers, Sequences, FiniteSets, TLC

\* ---------------------------------------------------------------- bounds
\* Highest value of the id sequence at which a call that may INSERT starts.
MaxSeq == 2

Names     == {"Alice", "Bob"}
Emails    == {"alice@x.com", "bob@x.com"}
Passwords == {"pw123"}
Salts     == {"s1", "s2"}
Procs     == {1, 2}

\* ---------------------------------------------------------------- outcomes
NoErr            == "ok"
ErrDuplicate     == "ValueError: Email already registered"
ErrNotFound      == "ValueError: User not found"
ErrIntegrity     == "sqlalchemy.exc.IntegrityError"
ErrNotPersistent == "sqlalchemy.exc.InvalidRequestError: not persistent within this Session"

VARIABLES
  rows,   \* the "users" table: a set of rows [id, name, email, password_hash, is_active]
  seq,    \* next value of the table's id sequence
  last,   \* the last completed call: what was asked, its outcome, what it returned
  sess,   \* SpecConc: per request, where it is and what its session holds
  created \* history: the emails some Create call has succeeded with

vars == <<rows, seq, last, sess, created>>

DB == [rows |-> rows, seq |-> seq]

\* ---------------------------------------------------------------- entity
\* Security.get_password_hash: salted one-way hash, never the plaintext.
get_password_hash(password, salt) == <<"hash", salt, password>>

Hashes == {get_password_hash(p, s) : p \in Passwords, s \in Salts}

\* domain.user.User(id, name, email, password_hash): is_active defaults to True.
User(id, name, email, password_hash) ==
  [id |-> id, name |-> name, email |-> email,
   password_hash |-> password_hash, is_active |-> TRUE]

\* Python truthiness of Optional[int]: None and 0 are falsy.
Truthy(id) == id # <<>> /\ id[1] # 0

\* ---------------------------------------------------------------- repository
\* UserModel(name=..., email=..., password_hash=..., is_active=...): id not set.
ToModel_dropsActive(user) ==
  [name |-> user.name, email |-> user.email,
   password_hash |-> user.password_hash, is_active |-> TRUE]

ToModel(user) ==
  [name |-> user.name, email |-> user.email,
   password_hash |-> user.password_hash, is_active |-> user.is_active]

\* User(id=user_model.id, name=..., ...) built from a row.
ToUser_noId(m) ==
  [id |-> <<>>, name |-> m.name, email |-> m.email,
   password_hash |-> m.password_hash, is_active |-> m.is_active]

ToUser(m) ==
  [id |-> <<m.id>>, name |-> m.name, email |-> m.email,
   password_hash |-> m.password_hash, is_active |-> m.is_active]

WithId(user_model, id) ==
  [id |-> id, name |-> user_model.name, email |-> user_model.email,
   password_hash |-> user_model.password_hash, is_active |-> user_model.is_active]

\* The table's constraints, checked by the store at commit.
PrimaryKeyFree(rs, id) == \A x \in rs : x.id # id

EmailFree_unconstrained(rs, email, id) == TRUE

\* email UNIQUE: no other row carries this email.
EmailFree(rs, email, id) == \A x \in rs : x.email = email => x.id = id

\* query(UserModel).filter(UserModel.email == email).first()
find_by_email_wrongColumn(rs, email) ==
  IF \E m \in rs : m.name = email
  THEN <<ToUser(CHOOSE m \in rs : m.name = email)>>
  ELSE <<>>

find_by_email_activeOnly(rs, email) ==
  IF \E m \in rs : m.email = email /\ m.is_active
  THEN <<ToUser(CHOOSE m \in rs : m.email = email /\ m.is_active)>>
  ELSE <<>>

find_by_email(rs, email) ==
  IF \E m \in rs : m.email = email
  THEN <<ToUser(CHOOSE m \in rs : m.email = email)>>
  ELSE <<>>

\* query(UserModel).filter(UserModel.id == user_id).first()
find_by_id_noFilter(rs, user_id) ==
  IF rs # {}
  THEN <<ToUser(CHOOSE m \in rs : \A x \in rs : m.id <= x.id)>>
  ELSE <<>>

find_by_id(rs, user_id) ==
  IF \E m \in rs : m.id = user_id
  THEN <<ToUser(CHOOSE m \in rs : m.id = user_id)>>
  ELSE <<>>

\* The row the session holds for primary key id: the one an earlier query of
\* this session loaded, else the one SELECTed now, else none.
Persistent(rs, loaded, id) ==
  IF loaded # <<>> /\ loaded[1].id = id THEN loaded
  ELSE IF \E x \in rs : x.id = id THEN <<CHOOSE x \in rs : x.id = id>>
  ELSE <<>>

Outcome(rs, sq, err, ret) == [rows |-> rs, seq |-> sq, err |-> err, ret |-> ret]

\* db.add(user_model); db.commit(); db.refresh(user_model); return User(...).
\* The INSERT draws the id from the sequence; a sequence value is consumed
\* even when the INSERT is rolled back.
add(db, user_model) ==
  LET m == WithId(user_model, db.seq) IN
  IF PrimaryKeyFree(db.rows, m.id) /\ EmailFree(db.rows, m.email, m.id)
  THEN LET rs == db.rows \cup {m} IN
       Outcome(rs, db.seq + 1, NoErr, <<ToUser(CHOOSE x \in rs : x.id = m.id)>>)
  ELSE Outcome(db.rows, db.seq + 1, ErrIntegrity, <<>>)

\* user_model.id = user.id; db.merge(user_model); db.commit();
\* db.refresh(user_model).  merge copies user_model onto the session's
\* persistent row for that id (INSERTing one when there is none) and returns
\* it; the result is discarded, user_model itself stays outside the session,
\* and refresh of an instance that is not persistent raises after the commit.
\* The flush UPDATEs the columns whose value differs from the persistent row.
merge(db, loaded, user_model, id) ==
  LET m == WithId(user_model, id)
      p == Persistent(db.rows, loaded, id)
  IN IF p = <<>>
     THEN IF PrimaryKeyFree(db.rows, id) /\ EmailFree(db.rows, m.email, id)
          THEN Outcome(db.rows \cup {m}, db.seq, ErrNotPersistent, <<>>)
          ELSE Outcome(db.rows, db.seq, ErrIntegrity, <<>>)
     ELSE IF \A x \in db.rows : x.id # id
          THEN Outcome(db.rows, db.seq, ErrIntegrity, <<>>)
          ELSE LET cur == CHOOSE x \in db.rows : x.id = id
                   new == [f \in DOMAIN cur |->
                             IF m[f] # p[1][f] THEN m[f] ELSE cur[f]]
               IN IF EmailFree(db.rows, new.email, id)
                  THEN Outcome((db.rows \ {cur}) \cup {new}, db.seq,
                               ErrNotPersistent, <<>>)
                  ELSE Outcome(db.rows, db.seq, ErrIntegrity, <<>>)

\* SQLAlchemyUserRepository.save; loaded is what the session already holds.
save(db, loaded, user) ==
  IF Truthy(user.id)
  THEN merge(db, loaded, ToModel(user), user.id[1])
  ELSE add(db, ToModel(user))

\* ---------------------------------------------------------------- use cases
Result(r, saves) ==
  [rows |-> r.rows, seq |-> r.seq, err |-> r.err, ret |-> r.ret, saves |-> saves]

\* CreateUserUseCase.execute
CreateUserUseCase_execute(db, name, email, password, salt) ==
  IF find_by_email(db.rows, email) # <<>>
  THEN Result(Outcome(db.rows, db.seq, ErrDuplicate, <<>>), 0)
  ELSE Result(save(db, <<>>,
                   User(<<>>, name, email, get_password_hash(password, salt))), 1)

\* user.is_active = False on the entity find_by_id returned
Deactivate_toggle(user) == [user EXCEPT !.is_active = ~user.is_active]

Deactivate(user) == [user EXCEPT !.is_active = FALSE]

\* The row find_by_id's query left in the session's identity map.
Loaded(rs, user_id) == Persistent(rs, <<>>, user_id)

\* DeleteUserUseCase.execute
DeleteUserUseCase_execute(db, user_id) ==
  LET user == find_by_id(db.rows, user_id) IN
  IF user = <<>>
  THEN Result(Outcome(db.rows, db.seq, ErrNotFound, <<>>), 0)
  ELSE Result(save(db, Loaded(db.rows, user_id), Deactivate(user[1])), 1)

\* ---------------------------------------------------------------- state
Call(op, name, email, id, user, err, ret, saves) ==
  [op |-> op, name |-> name, email |-> email, id |-> id, user |-> user,
   err |-> err, ret |-> ret, saves |-> saves]

Idle == [pc |-> "idle", user |-> <<>>, loaded |-> <<>>]

Init ==
  /\ rows = {}
  /\ seq = 1
  /\ last = Call("none", "", "", <<>>, <<>>, NoErr, <<>>, 0)
  /\ sess = [p \in Procs |-> Idle]
  /\ created = {}

\* ---------------------------------------------------------------- Spec
\* POST /users
Create(name, email, password, salt) ==
  /\ seq <= MaxSeq
  /\ LET r == CreateUserUseCase_execute(DB, name, email, password, salt) IN
       /\ rows' = r.rows
       /\ seq' = r.seq
       /\ last' = Call("create", name, email, <<>>, <<>>, r.err, r.ret, r.saves)
       /\ created' = IF r.err = NoErr THEN created \cup {email} ELSE created
  /\ UNCHANGED sess

\* DELETE /users/{user_id}
Delete(user_id) ==
  /\ LET r == DeleteUserUseCase_execute(DB, user_id) IN
       /\ rows' = r.rows
       /\ seq' = r.seq
       /\ last' = Call("delete", "", "", <<user_id>>, <<>>, r.err, r.ret, r.saves)
  /\ UNCHANGED <<sess, created>>

UserIds == 0 .. (MaxSeq + 1)

Next ==
  \/ \E n \in Names, e \in Emails, pw \in Passwords, s \in Salts : Create(n, e, pw, s)
  \/ \E i \in UserIds : Delete(i)

Spec == Init /\ [][Next]_vars

\* ---------------------------------------------------------------- SpecRepo
\* The entities a caller of the port can hand to save.
Entities ==
  [id : {<<>>} \cup {<<i>> : i \in 0 .. MaxSeq}, name : Names, email : Emails,
   password_hash : {get_password_hash("pw123", "s1")}, is_active : BOOLEAN]

\* repository.save(user) in a session of its own
Save(user) ==
  /\ seq <= MaxSeq
  /\ LET r == save(DB, <<>>, user) IN
       /\ rows' = r.rows
       /\ seq' = r.seq
       /\ last' = Call("save", user.name, user.email, user.id, <<user>>, r.err, r.ret, 1)
  /\ UNCHANGED <<sess, created>>

\* repository.find_by_id(user_id)
FindById(user_id) ==
  /\ last' = Call("find_by_id", "", "", <<user_id>>, <<>>, NoErr,
                  find_by_id(rows, user_id), 0)
  /\ UNCHANGED <<rows, seq, sess, created>>

\* repository.find_by_email(email)
FindByEmail(email) ==
  /\ last' = Call("find_by_email", "", email, <<>>, <<>>, NoErr,
                  find_by_email(rows, email), 0)
  /\ UNCHANGED <<rows, seq, sess, created>>

NextRepo ==
  \/ \E u \in Entities : Save(u)
  \/ \E i \in UserIds : FindById(i)
  \/ \E e \in Emails : FindByEmail(e)

SpecRepo == Init /\ [][NextRepo]_vars

\* ---------------------------------------------------------------- SpecConc
\* Create, first round-trip: find_by_email, then raise or build the entity.
CreateFind(p, name, email, password, salt) ==
  /\ sess[p].pc = "idle"
  /\ seq <= MaxSeq
  /\ IF find_by_email(rows, email) # <<>>
     THEN /\ last' = Call("create", name, email, <<>>, <<>>, ErrDuplicate, <<>>, 0)
          /\ UNCHANGED sess
     ELSE /\ sess' = [sess EXCEPT ![p] =
                        [pc |-> "create_save", loaded |-> <<>>,
                         user |-> <<User(<<>>, name, email,
                                         get_password_hash(password, salt))>>]]
          /\ UNCHANGED last
  /\ UNCHANGED <<rows, seq, created>>

\* Create, second round-trip: repository.save(user)
CreateSave(p) ==
  /\ sess[p].pc = "create_save"
  /\ LET u == sess[p].user[1]
         r == save(DB, sess[p].loaded, u) IN
       /\ rows' = r.rows
       /\ seq' = r.seq
       /\ last' = Call("create", u.name, u.email, <<>>, <<>>, r.err, r.ret, 1)
       /\ created' = IF r.err = NoErr THEN created \cup {u.email} ELSE created
  /\ sess' = [sess EXCEPT ![p] = Idle]

\* Delete, first round-trip: find_by_id, then raise or set is_active = False.
DeleteFind(p, user_id) ==
  /\ sess[p].pc = "idle"
  /\ LET user == find_by_id(rows, user_id) IN
       IF user = <<>>
       THEN /\ last' = Call("delete", "", "", <<user_id>>, <<>>, ErrNotFound, <<>>, 0)
            /\ UNCHANGED sess
       ELSE /\ sess' = [sess EXCEPT ![p] =
                          [pc |-> "delete_save", loaded |-> Loaded(rows, user_id),
                           user |-> <<Deactivate(user[1])>>]]
            /\ UNCHANGED last
  /\ UNCHANGED <<rows, seq, created>>

\* Delete, second round-trip: repository.save(user)
DeleteSave(p) ==
  /\ sess[p].pc = "delete_save"
  /\ LET u == sess[p].user[1]
         r == save(DB, sess[p].loaded, u) IN
       /\ rows' = r.rows
       /\ seq' = r.seq
       /\ last' = Call("delete", "", "", u.id, <<>>, r.err, r.ret, 1)
  /\ sess' = [sess EXCEPT ![p] = Idle]
  /\ UNCHANGED created

NextConc ==
  \/ \E p \in Procs, n \in Names, e \in Emails, pw \in Passwords, s \in Salts :
       CreateFind(p, n, e, pw, s)
  \/ \E p \in Procs : CreateSave(p)
  \/ \E p \in Procs, i \in UserIds : DeleteFind(p, i)
  \/ \E p \in Procs : DeleteSave(p)

SpecConc == Init /\ [][NextConc]_vars

\* ================================================================ claims
HasEmail(rs, email) == \E m \in rs : m.email = email
HasId(rs, id) == \E m \in rs : <<m.id>> = id

\* C1: a Create call whose email no row carries succeeds, adds exactly one
\* row, with that name and email, and returns an entity that carries the new
\* row's id (not None) and is_active = True.
C1_CreateUnseenEmail ==
  [][(last'.op = "create" /\ ~HasEmail(rows, last'.email)) =>
       /\ last'.err = NoErr
       /\ last'.ret # <<>>
       /\ \E m \in rows' \ rows :
            /\ rows' = rows \cup {m}
            /\ m.name = last'.name
            /\ m.email = last'.email
            /\ last'.ret[1].id = <<m.id>>
            /\ last'.ret[1].is_active = TRUE]_vars

C1_Witness ==
  /\ last.op = "create"
  /\ last.err = NoErr
  /\ Cardinality(rows) = 2
  /\ \E m \in rows : last.ret = <<ToUser(m)>> /\ m.email = last.email

\* C2: a Create call that directly follows a successful Create call with the
\* same email fails with "Email already registered", calls save not at all
\* and leaves the table as it was.
C2_SecondCreateRejected ==
  [][(/\ last.op = "create"
      /\ last.err = NoErr
      /\ last'.op = "create"
      /\ last'.email = last.email) =>
       /\ last'.err = ErrDuplicate
       /\ last'.saves = 0
       /\ rows' = rows]_vars

C2_Witness ==
  /\ last.op = "create"
  /\ last.err = ErrDuplicate
  /\ seq = 2
  /\ \E m \in rows : rows = {m} /\ m.email = last.email /\ m.is_active

\* C3: a Delete call on the id of an existing row succeeds, sets that row's
\* is_active to False and changes nothing else in the table (the same for a
\* second call on that id).
C3_DeleteExisting ==
  [][(last'.op = "delete" /\ HasId(rows, last'.id)) =>
       /\ last'.err = NoErr
       /\ last'.ret # <<>>
       /\ rows' = {IF <<m.id>> = last'.id THEN [m EXCEPT !.is_active = FALSE]
                   ELSE m : m \in rows}]_vars

\* C4: a Delete call on an id no row has fails with "User not found", calls
\* save not at all and leaves the table and its id sequence as they were.
C4_DeleteMissing ==
  [][(last'.op = "delete" /\ ~HasId(rows, last'.id)) =>
       /\ last'.err = ErrNotFound
       /\ last'.saves = 0
       /\ rows' = rows
       /\ seq' = seq]_vars

C4_Witness ==
  /\ last.op = "delete"
  /\ last.err = ErrNotFound
  /\ rows # {}
  /\ ~HasId(rows, last.id)

\* C7: a row, once there, stays with its id; a row that is new is active; a
\* row that is inactive stays inactive.
C7_Lifecycle ==
  [][/\ \A m \in rows : \E n \in rows' :
          n.id = m.id /\ (~m.is_active => ~n.is_active)
     /\ \A n \in rows' : (\A m \in rows : m.id # n.id) => n.is_active]_vars

C7_Witness ==
  /\ last.op = "delete"
  /\ \E m \in rows : <<m.id>> = last.id /\ ~m.is_active
  /\ \E m \in rows : m.is_active

\* C10: once some Create call has succeeded with an email, every later Create
\* call with that email fails with "Email already registered" and adds no
\* row, also after the user was deactivated.
C10_EmailStaysReserved ==
  [][(last'.op = "create" /\ last'.email \in created) =>
       /\ last'.err = ErrDuplicate
       /\ rows' = rows]_vars

C10_Witness ==
  /\ last.op = "create"
  /\ last.err = ErrDuplicate
  /\ last.email \in created
  /\ \E m \in rows : m.email = last.email /\ ~m.is_active

SameFields(found, user) ==
  /\ found.name = user.name
  /\ found.email = user.email
  /\ found.password_hash = user.password_hash
  /\ found.is_active = user.is_active

\* C5: right after a save call that returned, find_by_id on the returned id
\* yields an entity with that id and the saved name, email, password_hash
\* and is_active; after a save call that raised only once its commit was
\* done, find_by_id on the entity's own id yields the same.
C5_RoundTrip ==
  /\ (last.op = "save" /\ last.err = NoErr) =>
       /\ last.ret # <<>>
       /\ last.ret[1].id # <<>>
       /\ LET found == find_by_id(rows, last.ret[1].id[1]) IN
            /\ found # <<>>
            /\ found[1].id = last.ret[1].id
            /\ SameFields(found[1], last.user[1])
  /\ (last.op = "save" /\ last.err = ErrNotPersistent) =>
       LET found == find_by_id(rows, last.id[1]) IN
         /\ found # <<>>
         /\ found[1].id = last.id
         /\ SameFields(found[1], last.user[1])

C5_Witness ==
  /\ last.op = "save"
  /\ last.err = NoErr
  /\ ~last.user[1].is_active
  /\ Cardinality(rows) = 2
  /\ find_by_id(rows, last.ret[1].id[1]) = last.ret

\* C8: a save call that the store's constraints let through adds a row
\* exactly when the entity's id is None; with an id that a row has, the
\* number of rows stays; either way it returns an entity carrying the id of
\* the persisted row.
C8_SaveInsertsIffIdAbsent ==
  [][(last'.op = "save" /\ last'.err # ErrIntegrity) =>
       /\ (Cardinality(rows') = Cardinality(rows) + 1) <=> (last'.id = <<>>)
       /\ HasId(rows, last'.id) => Cardinality(rows') = Cardinality(rows)
       /\ last'.ret # <<>>
       /\ HasId(rows', last'.ret[1].id)
       /\ last'.id # <<>> => last'.ret[1].id = last'.id]_vars

\* C6: no two rows carry the same email, whatever the interleaving of the
\* requests' find_by_email and save steps.
C6_EmailUnique == \A a, b \in rows : a.email = b.email => a = b

\* Two Create calls passed the pre-check with one email; one has saved, and
\* the other's save was refused by the store.
C6_Witness ==
  /\ last.op = "create"
  /\ last.err = ErrIntegrity
  /\ last.saves = 1
  /\ \E m \in rows : m.email = last.email

\* C9: the save step of every Delete call, however interleaved with another
\* Delete of the same id, succeeds and leaves the table as it was but for
\* is_active = False in the row of that id.
C9_ConcurrentDelete ==
  [][\A p \in Procs :
       (sess[p].pc = "delete_save" /\ sess'[p].pc = "idle") =>
         /\ last'.err = NoErr
         /\ last'.ret # <<>>
         /\ rows' = {IF <<m.id>> = sess[p].user[1].id
                     THEN [m EXCEPT !.is_active = FALSE]
                     ELSE m : m \in rows}]_vars

====
